---------------------------- MODULE Spec2Model ----------------------------
(***************************************************************************)
(* A model of markdown-rs' whitespace helpers (`space_or_tab`,             *)
(* `space_or_tab_eol`, src/construct/partial_space_or_tab.rs) and of the   *)
(* link / subtokenize machinery (src/subtokenize.rs).                      *)
(*                                                                         *)
(* Conventions.  `Option<T>` is a sequence: None is <<>> and Some(x) is    *)
(* <<x>>.  Event indices are 0-based as in the source; At(evs, i) reads    *)
(* events[i].  A panic (failed assert, `expect`, `unwrap`, out-of-bounds   *)
(* index, usize underflow) is the state "abort".                           *)
(***************************************************************************)
EXTENDS Integers, Sequences, FiniteSets, TLC

VARIABLES
    events,     \* tokenizer.events / the `events` argument
    state,      \* the state function to call next, or the terminal result
    codes,      \* the codes fed so far (the input is revealed code by code)
    point,      \* tokenizer.point.index
    stack,      \* tokenizer.stack
    info,       \* Info of the running space_or_tab
    eolinfo,    \* EolInfo of the running space_or_tab_eol
    attempt,    \* the attempt in force: None or Some(frame)
    entry,      \* what the operation was called with (history)
    pass        \* the last call of subtokenize: its locals when it returned (history)

vars == <<events, state, codes, point, stack, info, eolinfo, attempt, entry, pass>>

----------------------------------------------------------------------------
(* Bounds of the model.                                                    *)

MaxCodes == 4
MaxMin == 2
MaxMax == 3
MaxEvents == 3
MaxChains == 2
MaxMembers == 2
MaxFlowCodes == 4
MaxText == 3

----------------------------------------------------------------------------
(* Shared types.                                                           *)

None == <<>>
Some(x) == <<x>>

\* usize::MAX; only ever compared with a size, so TLC's largest integer stands for it.
usize_MAX == 2147483647

ContentTypes == {"String", "Text"}

Min2(a, b) == IF a <= b THEN a ELSE b

\* events[i], 0-based.
At(evs, i) == evs[i + 1]

InRange(evs, i) == i >= 0 /\ i < Len(evs)

Link(previous, next, content_type) ==
    [previous |-> previous, next |-> next, content_type |-> content_type]

Event(event_type, token_type, index, link) ==
    [event_type |-> event_type, token_type |-> token_type, index |-> index, link |-> link]

\* events with events[i].link replaced by Some(l).
WithLink(evs, i, l) == [evs EXCEPT ![i + 1].link = Some(l)]

----------------------------------------------------------------------------
(* Codes.                                                                  *)

SpaceOrTabCodes == {"VirtualSpace", "Tab", "Space"}
EolCodes == {"CarriageReturnLineFeed", "LF", "CR"}
Alphabet == SpaceOrTabCodes \cup EolCodes \cup {"Other"}

\* Code::VirtualSpace | Code::Char('\t' | ' ')
IsSpaceOrTab(code) == code \in SpaceOrTabCodes

\* Code::CarriageReturnLineFeed | Code::Char('\n' | '\r')
IsEol(code) == code \in EolCodes

----------------------------------------------------------------------------
(* subtokenize.rs: link, link_to.                                          *)

Aborted(evs) == [aborted |-> TRUE, events |-> evs]
Returned(evs) == [aborted |-> FALSE, events |-> evs]

\* Mutant: the Exit after `pevious` is not asserted.
link_to_asserts_no_exit(evs, pevious, next) ==
    /\ InRange(evs, pevious)
    /\ At(evs, pevious).event_type = "Enter"
    /\ InRange(evs, next)
    /\ At(evs, next).event_type = "Enter"

\* The four assert_eq at the head of link_to; indexing out of bounds panics too.
\* The Exit of `next` is deliberately not looked at ("may not exist").
link_to_asserts(evs, pevious, next) ==
    /\ InRange(evs, pevious)
    /\ At(evs, pevious).event_type = "Enter"
    /\ InRange(evs, pevious + 1)
    /\ At(evs, pevious + 1).event_type = "Exit"
    /\ At(evs, pevious + 1).token_type = At(evs, pevious).token_type
    /\ InRange(evs, next)
    /\ At(evs, next).event_type = "Enter"

\* link_previous.next = Some(next)
set_next(l, next) == [l EXCEPT !.next = Some(next)]

\* Mutant: the back link is not written.
set_previous_not(l, pevious) == l

\* link_next.previous = Some(pevious)
set_previous(l, pevious) == [l EXCEPT !.previous = Some(pevious)]

link_to(evs, pevious, next) ==
    IF ~link_to_asserts(evs, pevious, next) THEN Aborted(evs)
    ELSE IF At(evs, pevious).link = None THEN Aborted(evs)
    ELSE LET conten_type_previous == At(evs, pevious).link[1].content_type
             e1 == WithLink(evs, pevious, set_next(At(evs, pevious).link[1], next))
         IN  IF At(e1, next).link = None THEN Aborted(e1)
             ELSE LET e2 == WithLink(e1, next, set_previous(At(e1, next).link[1], pevious))
                  IN  IF conten_type_previous # At(e2, next).link[1].content_type
                      THEN Aborted(e2)
                      ELSE Returned(e2)

\* `index - 2` on usize: below 2 it overflows (a panic, or a wrapped index that is
\* out of bounds: a panic as well).
link(evs, index) ==
    IF index < 2 THEN Aborted(evs) ELSE link_to(evs, index - 2, index)


----------------------------------------------------------------------------
(* Tokenizer runtime: enter_with_content, exit, consume, attempt.          *)

\* tokenizer.enter_with_content(kind, content_type): append an Enter at the
\* current point, with a fresh link (both neighbours None) when a content type is given.
enter_with_content(evs, pt, token_type, content_type) ==
    Append(evs, Event("Enter", token_type, pt,
                      IF content_type = None THEN None
                      ELSE Some(Link(None, None, content_type[1]))))

\* Mutant: the Exit carries a link of its own.
exit_linked(evs, pt, token_type) ==
    Append(evs, Event("Exit", token_type, pt, Some(Link(None, None, "Text"))))

\* tokenizer.exit(kind): append an Exit at the current point.
exit(evs, pt, token_type) == Append(evs, Event("Exit", token_type, pt, None))

\* The snapshot attempt / attempt_opt take of the tokenizer, and the state
\* function their continuation yields.
Frame(then) ==
    [then |-> then, events_len |-> Len(events), point |-> point, stack_len |-> Len(stack)]

\* The code handed to the next state function: the code at `point`, revealed
\* now when no state function has looked at it yet.  Past MaxCodes codes the
\* input ends (Code::None).
PrefixCodes == <<"Other">>
Origin == Len(PrefixCodes)

NextCodes ==
    IF point < Len(codes) THEN {codes[point + 1]}
    ELSE IF Len(codes) - Origin >= MaxCodes THEN {"None"}
    ELSE Alphabet \cup {"None"}

Fed(code) == IF point < Len(codes) THEN codes ELSE Append(codes, code)

----------------------------------------------------------------------------
(* partial_space_or_tab.rs.                                                *)

Options(min, max, kind, connect, content_type) ==
    [min |-> min, max |-> max, kind |-> kind, connect |-> connect,
     content_type |-> content_type]

EolOptions(connect, content_type) == [connect |-> connect, content_type |-> content_type]

NoPass ==
    [number |-> 0, before |-> <<>>, chains |-> <<>>, map |-> {}, done |-> TRUE,
     scanned |-> FALSE]

NoInfo == [size |-> 0, options |-> Options(0, 0, "SpaceOrTab", FALSE, None)]
NoEolInfo == [connect |-> FALSE, ok |-> FALSE, options |-> EolOptions(FALSE, None)]

\* Mutant: the continuation of the first attempt does not turn `connect` on.
eol_attempt_done_no_connect(einf, ok) ==
    IF ok THEN [einf EXCEPT !.ok = ok] ELSE einf

\* The closure `move |ok| { ... }` of space_or_tab_eol_with_options.
eol_attempt_done(einf, ok) ==
    IF ok
    THEN [einf EXCEPT !.ok = ok,
                      !.connect = IF einf.options.content_type # None THEN TRUE ELSE @]
    ELSE einf

\* A terminal result `res` of space_or_tab, with the tokenizer at (evs, pt, stk):
\* handed to the caller when no attempt is in force, else to the attempt, which
\* keeps the effects on Ok, restores its snapshot on Nok, and moves on to the
\* state function its continuation yields (the unconsumed code is replayed).
Finish(res, att, einf, evs, pt, stk) ==
    IF att = None
    THEN /\ state' = res
         /\ events' = evs
         /\ point' = pt
         /\ stack' = stk
         /\ eolinfo' = einf
         /\ attempt' = None
    ELSE LET f == att[1]
             ok == res = "Ok"
         IN  /\ attempt' = None
             /\ events' = IF ok THEN evs ELSE SubSeq(evs, 1, f.events_len)
             /\ point' = IF ok THEN pt ELSE f.point
             /\ stack' = IF ok THEN stk ELSE SubSeq(stk, 1, f.stack_len)
             /\ state' = f.then
             /\ eolinfo' = IF f.then = "after_space_or_tab"
                           THEN eol_attempt_done(einf, ok)
                           ELSE einf

\* Mutant: the event is linked only when `connect` is set.
start_links_connect_only(options) == options.connect

\* The condition under which start links the new Enter to the event two before it.
start_links(options) == options.content_type # None

\* Mutant: max is not looked at.
start_enters_no_max(code, inf) == IsSpaceOrTab(code)

start_enters(code, inf) == IsSpaceOrTab(code) /\ inf.options.max > 0

\* fn start, called with `code`, Info `inf`, under attempt `att`.
start(code, inf, att, einf) ==
    /\ codes' = Fed(code)
    /\ IF start_enters(code, inf)
       THEN LET entered == enter_with_content(events, point, inf.options.kind,
                                              inf.options.content_type)
                linked == IF start_links(inf.options)
                          THEN link(entered, Len(entered) - 1)
                          ELSE Returned(entered)
            IN  /\ events' = linked.events
                /\ stack' = Append(stack, inf.options.kind)
                /\ eolinfo' = einf
                /\ IF linked.aborted
                   THEN /\ state' = "abort"
                        /\ UNCHANGED point
                        /\ info' = inf
                        /\ attempt' = att
                   ELSE /\ point' = point + 1
                        /\ info' = [inf EXCEPT !.size = @ + 1]
                        /\ state' = "inside"
                        /\ attempt' = att
       ELSE /\ info' = inf
            /\ Finish(IF inf.options.min = 0 THEN "Ok" ELSE "Nok", att, einf,
                      events, point, stack)

\* Mutant: one code more than max is taken.
inside_continues_off_by_one(code, inf) == IsSpaceOrTab(code) /\ inf.size <= inf.options.max

inside_continues(code, inf) == IsSpaceOrTab(code) /\ inf.size < inf.options.max

\* fn inside.
inside ==
    /\ state = "inside"
    /\ \E code \in NextCodes :
          /\ codes' = Fed(code)
          /\ IF inside_continues(code, info)
             THEN /\ point' = point + 1
                  /\ info' = [info EXCEPT !.size = @ + 1]
                  /\ UNCHANGED <<events, stack, state, eolinfo, attempt>>
             ELSE /\ UNCHANGED info
                  /\ Finish(IF info.size >= info.options.min THEN "Ok" ELSE "Nok",
                            attempt, eolinfo,
                            exit(events, point, info.options.kind),
                            point,
                            SubSeq(stack, 1, Len(stack) - 1))
    /\ UNCHANGED <<entry, pass>>

\* space_or_tab_with_options(options): the construct's first state function.
space_or_tab ==
    /\ state = "space_or_tab"
    /\ \E code \in NextCodes :
          start(code, [size |-> 0, options |-> entry.options], None, eolinfo)
    /\ UNCHANGED <<entry, pass>>

\* space_or_tab_eol_with_options(options): attempt space_or_tab(1, usize::MAX).
space_or_tab_eol ==
    /\ state = "space_or_tab_eol"
    /\ \E code \in NextCodes :
          LET einf == [connect |-> FALSE, ok |-> FALSE, options |-> entry.options]
          IN  start(code,
                    [size |-> 0,
                     options |-> Options(1, usize_MAX, "SpaceOrTab",
                                         einf.options.connect, einf.options.content_type)],
                    Some(Frame("after_space_or_tab")),
                    einf)
    /\ UNCHANGED <<entry, pass>>

\* Mutant: the line ending is entered as whitespace.
eol_token_space_or_tab == "SpaceOrTab"

\* `TokenType::LineEnding`, the token after_space_or_tab enters and exits.
eol_token == "LineEnding"

\* Mutant: the line ending is never linked.
after_space_or_tab_links_never(einf) == FALSE

after_space_or_tab_links(einf) == einf.connect

\* fn after_space_or_tab.
after_space_or_tab ==
    /\ state = "after_space_or_tab"
    /\ \E code \in NextCodes :
          /\ codes' = Fed(code)
          /\ IF IsEol(code)
             THEN LET entered == enter_with_content(events, point, eol_token,
                                                    eolinfo.options.content_type)
                      linked == IF after_space_or_tab_links(eolinfo)
                                THEN link(entered, Len(entered) - 1)
                                ELSE Returned(entered)
                  IN  IF linked.aborted
                      THEN /\ events' = linked.events
                           /\ stack' = Append(stack, eol_token)
                           /\ state' = "abort"
                           /\ UNCHANGED <<point, eolinfo>>
                      ELSE /\ events' = exit(linked.events, point + 1, eol_token)
                           /\ point' = point + 1
                           /\ eolinfo' = IF ~eolinfo.connect
                                            /\ eolinfo.options.content_type # None
                                         THEN [eolinfo EXCEPT !.connect = TRUE]
                                         ELSE eolinfo
                           /\ state' = "after_eol"
                           /\ UNCHANGED stack
             ELSE /\ state' = IF eolinfo.ok THEN "Ok" ELSE "Nok"
                  /\ UNCHANGED <<events, point, stack, eolinfo>>
    /\ UNCHANGED <<info, attempt, entry, pass>>

\* fn after_eol: attempt_opt space_or_tab(1, usize::MAX).
after_eol ==
    /\ state = "after_eol"
    /\ \E code \in NextCodes :
          start(code,
                [size |-> 0,
                 options |-> Options(1, usize_MAX, "SpaceOrTab",
                                     eolinfo.connect, eolinfo.options.content_type)],
                Some(Frame("after_more_space_or_tab")),
                eolinfo)
    /\ UNCHANGED <<entry, pass>>

\* Mutant: end of input is let through.
blank_line_no_eof(code) == IsEol(code)

\* matches!(code, Code::None | Code::CarriageReturnLineFeed | Code::Char('\n' | '\r'))
blank_line(code) == code = "None" \/ IsEol(code)

\* fn after_more_space_or_tab.
after_more_space_or_tab ==
    /\ state = "after_more_space_or_tab"
    /\ \E code \in NextCodes :
          /\ codes' = Fed(code)
          /\ state' = IF blank_line(code) THEN "Nok" ELSE "Ok"
    /\ UNCHANGED <<events, point, stack, info, eolinfo, attempt, entry, pass>>

----------------------------------------------------------------------------
(* The whitespace helpers, run on a tokenizer that has consumed PrefixCodes *)
(* and holds some events already.                                          *)

\* Event logs the construct may be started on: (events, stack).
PriorLogs ==
    { [events |-> <<>>, stack |-> <<>>],
      [events |-> <<Event("Enter", "Paragraph", 0, None)>>, stack |-> <<"Paragraph">>],
      [events |-> <<Event("Enter", "Data", 0, None), Event("Exit", "Data", 1, None)>>,
       stack |-> <<>>],
      [events |-> <<Event("Enter", "Paragraph", 0, None),
                    Event("Enter", "ChunkText", 0, Some(Link(None, None, "Text"))),
                    Event("Exit", "ChunkText", 1, None)>>,
       stack |-> <<"Paragraph">>] }
    \cup { [events |-> <<Event("Enter", "ChunkString", 0, Some(Link(None, None, ct))),
                         Event("Exit", "ChunkString", 1, None)>>,
            stack |-> <<>>] : ct \in ContentTypes }

OptionContentTypes == {None} \cup {Some(ct) : ct \in ContentTypes}

InitSpaceOrTab ==
    /\ \E log \in PriorLogs :
          /\ events = log.events
          /\ stack = log.stack
          /\ \/ /\ state = "space_or_tab"
                /\ \E min \in 0..MaxMin, max \in 0..MaxMax, connect \in BOOLEAN,
                      content_type \in OptionContentTypes :
                      entry = [construct |-> "space_or_tab",
                               options |-> Options(min, max, "SpaceOrTab", connect,
                                                   content_type),
                               events |-> log.events, stack |-> log.stack]
             \/ /\ state = "space_or_tab_eol"
                /\ \E connect \in BOOLEAN, content_type \in OptionContentTypes :
                      entry = [construct |-> "space_or_tab_eol",
                               options |-> EolOptions(connect, content_type),
                               events |-> log.events, stack |-> log.stack]
    /\ codes = PrefixCodes
    /\ point = Origin
    /\ info = NoInfo
    /\ eolinfo = NoEolInfo
    /\ attempt = None
    /\ pass = NoPass

NextSpaceOrTab ==
    \/ space_or_tab
    \/ inside
    \/ space_or_tab_eol
    \/ after_space_or_tab
    \/ after_eol
    \/ after_more_space_or_tab

SpecSpaceOrTab == InitSpaceOrTab /\ [][NextSpaceOrTab]_vars

----------------------------------------------------------------------------
(* Claims about space_or_tab and space_or_tab_eol.                         *)

\* The length of the run of ' ' / '\t' / VirtualSpace codes of cs that starts at index i.
RECURSIVE RunFrom(_, _)
RunFrom(cs, i) ==
    IF i < Len(cs) /\ IsSpaceOrTab(cs[i + 1]) THEN 1 + RunFrom(cs, i + 1) ELSE 0

\* C1: space_or_tab(min, max) consumes only whitespace codes and never more than
\* max; when it ends it has consumed exactly k = min(leading run, max) codes and
\* its result is Ok if and only if k >= min.
C1_SpaceOrTabConsumes ==
    entry.construct = "space_or_tab" =>
        /\ \A i \in (Origin + 1)..point : IsSpaceOrTab(codes[i])
        /\ point - Origin <= entry.options.max
        /\ state \in {"Ok", "Nok"} =>
              /\ point - Origin = Min2(RunFrom(codes, Origin), entry.options.max)
              /\ (state = "Ok") <=> (point - Origin >= entry.options.min)

\* A run longer than max was cut at max >= 2, and the result is Ok.
C1_Witness ==
    /\ entry.construct = "space_or_tab"
    /\ state = "Ok"
    /\ entry.options.max >= 2
    /\ entry.options.min >= 1
    /\ point - Origin = entry.options.max
    /\ RunFrom(codes, Origin) > entry.options.max

\* (a) one or more whitespace codes, then a code that is not a line ending.
MatchesWhitespace ==
    LET w == RunFrom(codes, Origin)
    IN  /\ w >= 1
        /\ Origin + w < Len(codes)
        /\ ~IsEol(codes[Origin + w + 1])

\* (b) whitespace*, one line ending, whitespace*, then a code that is neither a
\* line ending nor the end of the input.
MatchesEol ==
    LET eol == Origin + RunFrom(codes, Origin) + 1
    IN  /\ eol <= Len(codes)
        /\ IsEol(codes[eol])
        /\ LET after == eol + RunFrom(codes, eol) + 1
           IN  /\ after <= Len(codes)
               /\ ~IsEol(codes[after])
               /\ codes[after] # "None"

\* C2: space_or_tab_eol yields Ok exactly on (a) or (b), and Nok otherwise.
C2_EolResult ==
    (entry.construct = "space_or_tab_eol" /\ state \in {"Ok", "Nok"}) =>
        ((state = "Ok") <=> (MatchesWhitespace \/ MatchesEol))

\* Whitespace, a line ending, whitespace, then end of input: Nok.
C2_Witness ==
    /\ entry.construct = "space_or_tab_eol"
    /\ state = "Nok"
    /\ RunFrom(codes, Origin) >= 1
    /\ Len(codes) = Origin + 4
    /\ IsEol(codes[Origin + RunFrom(codes, Origin) + 1])
    /\ IsSpaceOrTab(codes[Origin + 3])
    /\ codes[Origin + 4] = "None"

\* C3 (as claimed): with content_type set, the Enter that space_or_tab appends is
\* wired to a previous linked event when connect is true, and begins a new chain
\* (link.previous = None, no earlier event changed) when connect is false.
C3_ConnectDecidesWiring ==
    ( /\ entry.construct = "space_or_tab"
      /\ entry.options.content_type # None
      /\ state \in {"inside", "Ok", "Nok"}
      /\ Len(events) > Len(entry.events) ) =>
        LET n == Len(entry.events)
            new == At(events, n)
        IN  IF entry.options.connect
            THEN \E i \in 0..(n - 1) :
                    /\ new.link[1].previous = Some(i)
                    /\ At(events, i).link # None
                    /\ At(events, i).link[1].next = Some(n)
            ELSE /\ new.link[1].previous = None
                 /\ SubSeq(events, 1, n) = entry.events

\* C4: when space_or_tab_eol with content_type set has appended all three tokens,
\* their Enter events are one chain in emission order, all of that content type.
C4_EolChain ==
    ( /\ entry.construct = "space_or_tab_eol"
      /\ entry.options.content_type # None
      /\ Len(events) >= Len(entry.events) + 5 ) =>
        LET n == Len(entry.events)
            first == At(events, n)
            eol == At(events, n + 2)
            second == At(events, n + 4)
        IN  /\ first.event_type = "Enter" /\ first.token_type = "SpaceOrTab"
            /\ eol.event_type = "Enter" /\ eol.token_type = "LineEnding"
            /\ second.event_type = "Enter" /\ second.token_type = "SpaceOrTab"
            /\ first.link # None /\ eol.link # None /\ second.link # None
            /\ first.link[1].next = Some(n + 2)
            /\ eol.link[1].previous = Some(n)
            /\ eol.link[1].next = Some(n + 4)
            /\ second.link[1].previous = Some(n + 2)
            /\ second.link[1].next = None
            /\ \A e \in {first, eol, second} :
                  e.link[1].content_type = entry.options.content_type[1]

\* All three tokens were appended and the construct returned Ok.
C4_Witness ==
    /\ entry.construct = "space_or_tab_eol"
    /\ entry.options.content_type # None
    /\ Len(events) = Len(entry.events) + 6
    /\ state = "Ok"

----------------------------------------------------------------------------
(* link_to called on an arbitrary event vector with arbitrary indices.     *)

TokenTypes == {"ChunkString", "SpaceOrTab"}

\* The links an Enter of the vector may carry already.
PriorLinks ==
    {None, Some(Link(Some(0), Some(2), "String"))}
    \cup {Some(Link(None, None, ct)) : ct \in ContentTypes}

EventKinds ==
    {[event_type |-> "Enter", token_type |-> t, link |-> l] : t \in TokenTypes, l \in PriorLinks}
    \cup {[event_type |-> "Exit", token_type |-> t, link |-> None] : t \in TokenTypes}

\* Every vector of at most MaxEvents events; the i-th event sits at point i - 1.
EventVectors ==
    UNION { { [i \in 1..n |-> Event(k[i].event_type, k[i].token_type, i - 1, k[i].link)] :
              k \in [1..n -> EventKinds] } : n \in 0..MaxEvents }

InitLinkTo ==
    /\ events \in EventVectors
    /\ state = "link_to"
    /\ \E pevious \in 0..MaxEvents, next \in 0..MaxEvents :
          entry = [construct |-> "link_to", events |-> events,
                   pevious |-> pevious, next |-> next]
    /\ codes = <<>>
    /\ point = 0
    /\ stack = <<>>
    /\ info = NoInfo
    /\ eolinfo = NoEolInfo
    /\ attempt = None
    /\ pass = NoPass

\* One call link_to(events, entry.pevious, entry.next).
LinkTo ==
    /\ state = "link_to"
    /\ LET r == link_to(events, entry.pevious, entry.next)
       IN  /\ events' = r.events
           /\ state' = IF r.aborted THEN "abort" ELSE "returned"
    /\ UNCHANGED <<codes, point, stack, info, eolinfo, attempt, entry, pass>>

NextLinkTo == LinkTo

SpecLinkTo == InitLinkTo /\ [][NextLinkTo]_vars

\* What link_to writes, and what it must leave alone, for a call that returned.
LinkToWrites ==
    /\ At(events, entry.pevious).link[1].next = Some(entry.next)
    /\ At(events, entry.next).link[1].previous = Some(entry.pevious)

LinkToFrame ==
    /\ Len(events) = Len(entry.events)
    /\ \A i \in 0..(Len(events) - 1) :
          i \notin {entry.pevious, entry.next} => At(events, i) = At(entry.events, i)
    /\ \A i \in {entry.pevious, entry.next} :
          /\ At(events, i).event_type = At(entry.events, i).event_type
          /\ At(events, i).token_type = At(entry.events, i).token_type
          /\ At(events, i).index = At(entry.events, i).index
          /\ At(events, i).link[1].content_type = At(entry.events, i).link[1].content_type
    /\ At(events, entry.pevious).link[1].previous
          = At(entry.events, entry.pevious).link[1].previous
    /\ At(events, entry.next).link[1].next = At(entry.events, entry.next).link[1].next

\* C5 (as claimed): a call of link_to that returns has set events[a].link.next = b
\* and events[b].link.previous = a and left everything else unchanged, among it
\* events[a].link.previous and events[b].link.next.
C5_LinkToFrameAnyIndices ==
    (entry.construct = "link_to" /\ state = "returned") => (LinkToWrites /\ LinkToFrame)

\* C5 (amended): the same for a call with a # b.
C5_LinkToFrame ==
    (entry.construct = "link_to" /\ state = "returned" /\ entry.pevious # entry.next) =>
        (LinkToWrites /\ LinkToFrame)

\* A call with a # b returned, on events whose links held values before.
C5_Witness ==
    /\ entry.construct = "link_to"
    /\ state = "returned"
    /\ entry.pevious # entry.next
    /\ At(entry.events, entry.pevious).link[1].previous # None
    /\ At(entry.events, entry.next).link[1].next # None
    /\ Len(events) = 3

\* The requirement the claim puts on each of a and b.
VoidLinkedEnter(evs, i) ==
    /\ InRange(evs, i)
    /\ At(evs, i).event_type = "Enter"
    /\ InRange(evs, i + 1)
    /\ At(evs, i + 1).event_type = "Exit"
    /\ At(evs, i + 1).token_type = At(evs, i).token_type
    /\ At(evs, i).link # None

\* C6 (as claimed): link_to completes only when a and b are both Enter events,
\* each followed by its own Exit of the same token type, both linked, with the
\* same content type.
C6_RejectsUnlessBothVoid ==
    (entry.construct = "link_to" /\ state = "returned") =>
        /\ VoidLinkedEnter(entry.events, entry.pevious)
        /\ VoidLinkedEnter(entry.events, entry.next)
        /\ At(entry.events, entry.pevious).link[1].content_type
              = At(entry.events, entry.next).link[1].content_type

\* C6 (amended): link_to completes exactly when a is a linked Enter followed by
\* its Exit of the same token type, b is a linked Enter (whatever follows b), and
\* the content types are the same; every other call aborts.
C6_RejectsExactly ==
    (entry.construct = "link_to" /\ state # "link_to") =>
        /\ state \in {"returned", "abort"}
        /\ (state = "returned") <=>
              /\ VoidLinkedEnter(entry.events, entry.pevious)
              /\ InRange(entry.events, entry.next)
              /\ At(entry.events, entry.next).event_type = "Enter"
              /\ At(entry.events, entry.next).link # None
              /\ At(entry.events, entry.pevious).link[1].content_type
                    = At(entry.events, entry.next).link[1].content_type

\* A call returned whose b is the last event: no Exit follows it.
C6_Witness ==
    /\ entry.construct = "link_to"
    /\ state = "returned"
    /\ entry.pevious # entry.next
    /\ entry.next = Len(events) - 1

----------------------------------------------------------------------------
(* The event vector flow tokenization hands to subtokenize: up to MaxChains *)
(* containers, each with a chain of up to MaxMembers void, linked chunks,  *)
(* adjacent or with a line ending between them.                            *)

\* The code length of a chunk.
SpanLens == {1, 2}

\* n = 0: a container without content.  gap: the members are separated by a
\* line ending that is not part of the content (the chain is non-contiguous).
ChainShapes ==
    { shape \in [n : 0..MaxMembers, len : SpanLens, content_type : ContentTypes,
                 gap : BOOLEAN] : shape.gap => shape.n >= 2 }

\* The codes of a container: its chunks and the line endings between them.
ChainCodes(shape) ==
    shape.n * shape.len + (IF shape.gap THEN shape.n - 1 ELSE 0)

RECURSIVE CodesOf(_, _)
CodesOf(layout, k) ==
    IF k > Len(layout) THEN 0 ELSE ChainCodes(layout[k]) + CodesOf(layout, k + 1)

\* Up to MaxChains containers holding up to MaxFlowCodes codes of content.
Layouts ==
    { layout \in UNION { [1..k -> ChainShapes] : k \in 0..MaxChains } :
        CodesOf(layout, 1) <= MaxFlowCodes }

ChunkType(content_type) == IF content_type = "Text" THEN "ChunkText" ELSE "ChunkString"
ParentType(content_type) == IF content_type = "Text" THEN "Paragraph" ELSE "Definition"

\* One container at event index `base` and point `pt`: Enter, the n chunks
\* (void pairs linked to each other, as link_to(events, previous, next) wires
\* them), Exit.
ChainEvents(shape, base, pt) ==
    LET g == IF shape.gap THEN 1 ELSE 0
        at(i) == base + 1 + (2 + 2 * g) * (i - 1)
        from(i) == pt + (i - 1) * (shape.len + g)
        member(i) ==
            <<Event("Enter", ChunkType(shape.content_type), from(i),
                    Some(Link(IF i = 1 THEN None ELSE Some(at(i - 1)),
                              IF i = shape.n THEN None ELSE Some(at(i + 1)),
                              shape.content_type))),
              Event("Exit", ChunkType(shape.content_type), from(i) + shape.len, None)>>
            \o (IF shape.gap /\ i < shape.n
                THEN <<Event("Enter", "LineEnding", from(i) + shape.len, None),
                       Event("Exit", "LineEnding", from(i) + shape.len + 1, None)>>
                ELSE <<>>)
        members[i \in 0..shape.n] == IF i = 0 THEN <<>> ELSE members[i - 1] \o member(i)
    IN  <<Event("Enter", ParentType(shape.content_type), pt, None)>>
        \o members[shape.n]
        \o <<Event("Exit", ParentType(shape.content_type), pt + ChainCodes(shape), None)>>

\* The containers of a layout, a line ending after each.
RECURSIVE FlowEvents(_, _, _, _)
FlowEvents(layout, k, evs, pt) ==
    IF k > Len(layout) THEN evs
    ELSE LET after == pt + ChainCodes(layout[k])
         IN  FlowEvents(layout, k + 1,
                        evs \o ChainEvents(layout[k], Len(evs), pt)
                            \o <<Event("Enter", "LineEnding", after, None),
                                 Event("Exit", "LineEnding", after + 1, None)>>,
                        after + 1)

----------------------------------------------------------------------------
(* The sub-tokenizer: what tokenizer.push leaves in tokenizer.events for   *)
(* the codes of a chain.  Any well-nested stream of tokens in source order *)
(* that covers the codes fed: leaves that tile the codes, optionally one   *)
(* token around them, optionally some leaves linked for a deeper level.    *)

\* The code indices of the spans fed, in order.
RECURSIVE Positions(_, _)
Positions(feeds, k) ==
    IF k > Len(feeds) THEN <<>>
    ELSE [i \in 1..(feeds[k].end_index - feeds[k].start_index) |->
              feeds[k].start_index + i - 1]
         \o Positions(feeds, k + 1)

RECURSIVE Sorted(_)
Sorted(S) ==
    IF S = {} THEN <<>>
    ELSE LET m == CHOOSE x \in S : \A y \in S : x <= y
         IN  <<m>> \o Sorted(S \ {m})

\* The leaves [first, last] (indices into the positions) that cutting after
\* each element of `cuts` gives.
Leaves(N, cuts) ==
    LET starts == Sorted({1} \cup {c + 1 : c \in cuts})
    IN  [k \in 1..Len(starts) |->
            [first |-> starts[k],
             last |-> IF k = Len(starts) THEN N ELSE starts[k + 1] - 1]]

\* The content type of the links a root may leave in its events: text leaves
\* string content behind, string nothing (String within Text, and no deeper).
Deeper(root) == IF root = "text" THEN {"String"} ELSE {}

SubStream(P, leaves, linked, wrapped, content_type) ==
    LET w == IF wrapped THEN 1 ELSE 0
        chain == Sorted(linked)
        place(k) == CHOOSE i \in 1..Len(chain) : chain[i] = k
        enter_index(k) == w + 2 * (k - 1)
        leaf_link(k) ==
            IF k \notin linked THEN None
            ELSE Some(Link(IF place(k) = 1 THEN None
                           ELSE Some(enter_index(chain[place(k) - 1])),
                           IF place(k) = Len(chain) THEN None
                           ELSE Some(enter_index(chain[place(k) + 1])),
                           content_type))
        leaf(k) ==
            LET t == IF k \in linked THEN ChunkType(content_type) ELSE "Data"
            IN  <<Event("Enter", t, P[leaves[k].first], leaf_link(k)),
                  Event("Exit", t, P[leaves[k].last] + 1, None)>>
        all[k \in 0..Len(leaves)] == IF k = 0 THEN <<>> ELSE all[k - 1] \o leaf(k)
    IN  (IF wrapped THEN <<Event("Enter", "Emphasis", P[1], None)>> ELSE <<>>)
        \o all[Len(leaves)]
        \o (IF wrapped THEN <<Event("Exit", "Emphasis", P[Len(P)] + 1, None)>> ELSE <<>>)

\* tokenizer.events after the feeds of one chain.
Streams(feeds, root) ==
    LET P == Positions(feeds, 1)
        N == Len(P)
    IN  IF N = 0 THEN {<<>>}
        ELSE UNION {
               LET leaves == Leaves(N, cuts)
                   k == Len(leaves)
               IN  { SubStream(P, leaves, linked, wrapped, deeper) :
                       linked \in (SUBSET (1..k)) \ {{}},
                       wrapped \in IF k >= 2 THEN BOOLEAN ELSE {FALSE},
                       deeper \in Deeper(root) }
                   \cup
                   { SubStream(P, leaves, {}, wrapped, "String") :
                       wrapped \in IF k >= 2 THEN BOOLEAN ELSE {FALSE} }
               : cuts \in SUBSET (1..(N - 1)) }

----------------------------------------------------------------------------
(* Edit map: a set of patches [index, remove, add], applied in one pass.   *)

\* map.add(index, remove, add): adds at one index coalesce their insertions.
map_add(map, index, remove, add) ==
    IF \E q \in map : q.index = index
    THEN LET q == CHOOSE q \in map : q.index = index
         IN  (map \ {q}) \cup {[index |-> index, remove |-> q.remove, add |-> q.add \o add]}
    ELSE map \cup {[index |-> index, remove |-> remove, add |-> add]}

\* Two patches whose removal windows overlap: forbidden, consume aborts.
map_overlaps(map) ==
    \E q1, q2 \in map : q1.index < q2.index /\ q1.index + q1.remove > q2.index

RECURSIVE map_rebuild(_, _, _)
map_rebuild(evs, map, i) ==
    IF i >= Len(evs) THEN
        IF \E q \in map : q.index = i THEN (CHOOSE q \in map : q.index = i).add ELSE <<>>
    ELSE IF \E q \in map : q.index = i
    THEN LET q == CHOOSE q \in map : q.index = i
         IN  q.add \o (IF q.remove = 0
                       THEN <<At(evs, i)>> \o map_rebuild(evs, map, i + 1)
                       ELSE map_rebuild(evs, map, i + q.remove))
    ELSE <<At(evs, i)>> \o map_rebuild(evs, map, i + 1)

\* map.consume(events): copy the untouched events, skip the removed, emit the inserts.
map_consume(evs, map) ==
    IF map_overlaps(map) \/ (\E q \in map : q.index + q.remove > Len(evs))
    THEN Aborted(evs)
    ELSE Returned(map_rebuild(evs, map, 0))

----------------------------------------------------------------------------
(* subtokenize.rs: subtokenize.                                            *)

\* Mutant: the flag starts out false.
done_init_false == FALSE

\* `let mut done = true;`
done_init == TRUE

\* Mutant: every linked event starts a sub-tokenizer.
is_head_any(event) == event.link # None

\* `if let Some(ref link) = event.link` and `link.previous == None`.
is_head(event) == event.link # None /\ event.link[1].previous = None

\* Mutant: every chain is tokenized with the text root.
root_text(link_head) == "text"

\* `if link.content_type == ContentType::String { string } else { text }`
root(link_head) == IF link_head.content_type = "String" THEN "string" ELSE "text"

\* Mutant: define_skip is called for every member, the head too.
skips_always(link_curr) == TRUE

\* `if link_curr.previous != None { tokenizer.define_skip(&enter.point); }`
skips(link_curr) == link_curr.previous # None

\* Mutant: every feed is the last one.
eof_always(link_curr) == TRUE

\* The eof argument of tokenizer.push: `link_curr.next == None`.
eof(link_curr) == link_curr.next = None

\* The loop through the links of a chain, from events[index]: the feeds
\* (member, span, define_skip, eof) in call order.  A link.next that leads to an
\* event without a link, or out of the vector, panics; a cycle never ends.
RECURSIVE feed_chain(_, _, _)
feed_chain(evs, index, feeds) ==
    IF Len(feeds) > Len(evs) THEN [status |-> "hang", feeds |-> feeds]
    ELSE IF ~InRange(evs, index) \/ ~InRange(evs, index + 1)
    THEN [status |-> "abort", feeds |-> feeds]
    ELSE IF At(evs, index).link = None \/ At(evs, index).event_type # "Enter"
    THEN [status |-> "abort", feeds |-> feeds]
    ELSE LET enter == At(evs, index)
             link_curr == enter.link[1]
             fed == Append(feeds,
                           [index |-> index,
                            start_index |-> enter.index,
                            end_index |-> At(evs, index + 1).index,
                            define_skip |-> skips(link_curr),
                            eof |-> eof(link_curr),
                            calls |-> (IF skips(link_curr) THEN <<"define_skip">> ELSE <<>>)
                                      \o <<"push">>])
         IN  IF enter.index > At(evs, index + 1).index
             THEN [status |-> "abort", feeds |-> feeds]
             ELSE IF link_curr.next = None THEN [status |-> "run", feeds |-> fed]
             ELSE feed_chain(evs, link_curr.next[1], fed)

\* Mutant: the removed pairs are not counted.
shift_no_removed(link_index, slices) == link_index

\* `let shift = link_index - (slices.len() * 2);`
shift(link_index, slices) == link_index - (Len(slices) * 2)

\* The fix of one subevent's next link, and of the back link of its target.
fix_links(s) ==
    LET sh == shift(s.link_index, s.slices)
        sublink_curr == At(s.sub, s.subindex).link[1]
        next == sublink_curr.next[1]
        sub1 == WithLink(s.sub, s.subindex, [sublink_curr EXCEPT !.next = Some(next + sh)])
    IN  IF sh < 0 \/ ~InRange(sub1, next) THEN [s EXCEPT !.status = "abort"]
        ELSE IF At(sub1, next).link = None THEN [s EXCEPT !.status = "abort"]
        ELSE LET sublink_next == At(sub1, next).link[1]
             IN  [s EXCEPT !.sub = WithLink(sub1, next,
                                   [sublink_next EXCEPT !.previous =
                                       IF @ = None THEN None ELSE Some(@[1] + sh)])]

\* Mutant: a slice starts at the first subevent, Enter or Exit, past the member's end.
starts_after_any(evs, subevent, link_index) ==
    subevent.index >= At(evs, link_index + 1).index

\* "Find the first event that starts after the end we're looking for."
starts_after(evs, subevent, link_index) ==
    /\ subevent.event_type = "Enter"
    /\ subevent.index >= At(evs, link_index + 1).index

\* Mutant: the slices all go to the member the scan started at.
next_member_same(evs, link_index) == Some(link_index)

\* `events[link_index].link.as_ref().unwrap().next` (then unwrapped).
next_member(evs, link_index) == At(evs, link_index).link[1].next

\* The loop through the subevents: s holds its locals.
RECURSIVE divide(_, _)
divide(evs, s) ==
    IF s.status # "run" \/ s.subindex >= Len(s.sub) THEN s
    ELSE LET subevent == At(s.sub, s.subindex)
             s1 == IF starts_after(evs, subevent, s.link_index)
                   THEN LET next == next_member(evs, s.link_index)
                        IN  [s EXCEPT !.slices = Append(@, <<s.link_index, s.slice_start>>),
                                      !.slice_start = s.subindex,
                                      !.link_index = IF next = None THEN @ ELSE next[1],
                                      !.status = IF next = None THEN "abort" ELSE @]
                   ELSE s
             s2 == IF subevent.link # None THEN [s1 EXCEPT !.done = FALSE] ELSE s1
             s3 == IF s2.status = "run" /\ subevent.link # None
                      /\ subevent.link[1].next # None
                   THEN fix_links(s2)
                   ELSE s2
         IN  divide(evs, [s3 EXCEPT !.subindex = @ + 1])

\* Mutant: the split drops the first event of the tail.
split_off_one_late(sub, at) == SubSeq(sub, at + 2, Len(sub))

\* Mutant: split_off leaves the whole vector behind.
truncated_not(sub, at) == sub

\* What `tokenizer.events.split_off(at)` leaves in tokenizer.events.
truncated(sub, at) == SubSeq(sub, 1, at)

\* `tokenizer.events.split_off(at)`: the events from `at` on.
split_off(sub, at) == SubSeq(sub, at + 1, Len(sub))

\* "Finally, inject the subevents": one map.add per slice, last slice first;
\* split_off leaves the earlier slices in tokenizer.events.
RECURSIVE inject(_, _, _, _)
inject(map, sub, slices, index) ==
    IF index = 0 THEN map
    ELSE inject(map_add(map, slices[index][1], 2, split_off(sub, slices[index][2])),
                truncated(sub, slices[index][2]),
                slices, index - 1)

\* One chain, head at events[index], with `sub` what the sub-tokenizer made of it.
chain(evs, st, index, feeds, sub) ==
    LET d == divide(evs, [sub |-> sub, subindex |-> 0, link_index |-> index,
                          slices |-> <<>>, slice_start |-> 0, done |-> st.done,
                          status |-> "run"])
        slices == Append(d.slices, <<d.link_index, d.slice_start>>)
    IN  [st EXCEPT !.status = d.status,
                   !.done = d.done,
                   !.map = IF d.status = "run" THEN inject(@, d.sub, slices, Len(slices)) ELSE @,
                   !.chains = Append(@, [index |-> index,
                                         content_type |-> At(evs, index).link[1].content_type,
                                         root |-> root(At(evs, index).link[1]),
                                         feeds |-> feeds,
                                         events |-> sub,
                                         fixed |-> d.sub,
                                         slices |-> slices])]

\* The loop over events, from st.index: every way the pass can end, one per
\* choice of what the sub-tokenizers make of the chains.
RECURSIVE pass_from(_, _)
pass_from(evs, st) ==
    IF st.status # "run" \/ st.index >= Len(evs) THEN {st}
    ELSE IF is_head(At(evs, st.index))
    THEN LET f == feed_chain(evs, st.index, <<>>)
         IN  IF f.status # "run" THEN {[st EXCEPT !.status = f.status]}
             ELSE UNION { pass_from(evs, [chain(evs, st, st.index, f.feeds, sub)
                                             EXCEPT !.index = @ + 1]) :
                          sub \in Streams(f.feeds, root(At(evs, st.index).link[1])) }
    ELSE pass_from(evs, [st EXCEPT !.index = @ + 1])

\* One call of subtokenize(events, parse_state); the resolver calls it again
\* until it returns done = true.
subtokenize ==
    /\ state = "subtokenize"
    /\ \E st \in pass_from(events, [index |-> 0, map |-> {}, done |-> done_init,
                                    chains |-> <<>>, status |-> "run"]) :
          LET consumed == IF st.status = "run" THEN map_consume(events, st.map)
                          ELSE Aborted(events)
          IN  /\ events' = consumed.events
              /\ state' = IF st.status # "run" THEN st.status
                          ELSE IF consumed.aborted THEN "abort"
                          ELSE IF st.done THEN "done" ELSE "subtokenize"
              /\ pass' = [number |-> pass.number + 1, before |-> events,
                          chains |-> st.chains, map |-> st.map, done |-> st.done,
                          scanned |-> st.status = "run"]
    /\ UNCHANGED <<codes, point, stack, info, eolinfo, attempt, entry>>

InitSubtokenize ==
    /\ \E layout \in Layouts :
          /\ events = FlowEvents(layout, 1,
                                 <<Event("Enter", "LineEnding", 0, None),
                                   Event("Exit", "LineEnding", 1, None)>>, 1)
          /\ entry = [construct |-> "subtokenize"]
    /\ state = "subtokenize"
    /\ codes = <<>>
    /\ point = 0
    /\ stack = <<>>
    /\ info = NoInfo
    /\ eolinfo = NoEolInfo
    /\ attempt = None
    /\ pass = NoPass

NextSubtokenize == subtokenize

SpecSubtokenize == InitSubtokenize /\ [][NextSubtokenize]_vars

----------------------------------------------------------------------------
(* Claims about subtokenize.                                               *)

\* The last call of subtokenize returned (it did not panic or loop).
Returned1 == pass.number >= 1 /\ state \in {"done", "subtokenize"}

\* The slice (1-based) of chain c that holds subevent p (0-based).
SliceOf(c, p) ==
    CHOOSE k \in 1..Len(c.slices) :
        /\ c.slices[k][2] <= p
        /\ k = Len(c.slices) \/ c.slices[k + 1][2] > p

\* The subevents of slice k of chain c, as injected.
SliceEvents(c, k) ==
    SubSeq(c.fixed, c.slices[k][2] + 1,
           IF k = Len(c.slices) THEN Len(c.fixed) ELSE c.slices[k + 1][2])

\* C7 (as claimed): after a pass, every chain of n members has n slices, one per
\* member in chain order, and one patch (member, remove 2, insert its slice) each.
C7_SlicePerMember ==
    Returned1 =>
        \A i \in 1..Len(pass.chains) :
            LET c == pass.chains[i]
            IN  /\ Len(c.slices) = Len(c.feeds)
                /\ \A k \in 1..Len(c.slices) :
                      /\ c.slices[k][1] = c.feeds[k].index
                      /\ [index |-> c.feeds[k].index, remove |-> 2,
                          add |-> SliceEvents(c, k)] \in pass.map

\* Where subevent p of chain c sits in events once the edit map is applied: the
\* index of its member, moved by every patch before it, plus its place in the slice.
RECURSIVE SumGrowth(_)
SumGrowth(patches) ==
    IF patches = {} THEN 0
    ELSE LET q == CHOOSE q \in patches : TRUE
         IN  Len(q.add) - q.remove + SumGrowth(patches \ {q})

FinalIndex(c, p) ==
    LET k == SliceOf(c, p)
        m == c.slices[k][1]
    IN  m + SumGrowth({q \in pass.map : q.index < m}) + (p - c.slices[k][2])

\* C8 (as claimed): after a pass, every next link of a subevent leads to the
\* event it led to in the subevent vector, and that event's previous link
\* leads back.
C8_SubLinksRight ==
    Returned1 =>
        \A i \in 1..Len(pass.chains) :
            LET c == pass.chains[i]
            IN  \A p \in 0..(Len(c.events) - 1) :
                    (At(c.events, p).link # None /\ At(c.events, p).link[1].next # None) =>
                        LET q == At(c.events, p).link[1].next[1]
                            fp == FinalIndex(c, p)
                            fq == FinalIndex(c, q)
                        IN  /\ InRange(events, fp) /\ InRange(events, fq)
                            /\ At(events, fp).link # None
                            /\ At(events, fp).link[1].next = Some(fq)
                            /\ At(events, fq).link # None
                            /\ At(events, fq).link[1].previous = Some(fp)

\* C9 (as claimed): the resolver loop goes on until a call returns done = true:
\* at any time either a call has returned done = true, or the last call
\* returned and the next call can be made (no call panics or loops for ever).
C9_ResolverTerminates == state = "done" \/ state = "subtokenize"

----------------------------------------------------------------------------
(* Well-nestedness of an event vector.                                     *)

\* The open token types after the first i events, or <<"unbalanced">> once an
\* Exit did not close the innermost open Enter of its token type.
Unbalanced == <<"unbalanced">>

RECURSIVE OpenAfter(_, _)
OpenAfter(evs, i) ==
    IF i = 0 THEN <<>>
    ELSE LET open == OpenAfter(evs, i - 1)
             e == evs[i]
         IN  IF open = Unbalanced THEN Unbalanced
             ELSE IF e.event_type = "Enter" THEN Append(open, e.token_type)
             ELSE IF open # <<>> /\ open[Len(open)] = e.token_type
             THEN SubSeq(open, 1, Len(open) - 1)
             ELSE Unbalanced

WellNested(evs) == OpenAfter(evs, Len(evs)) = <<>>

\* C11: after every pass of subtokenize that returns, on a well-nested vector
\* and with well-nested subevents, events is well-nested: Enter and Exit
\* balance and each matched pair has one token_type.
C11_WellNestedAfterPass ==
    (Returned1 /\ WellNested(pass.before)
        /\ \A i \in 1..Len(pass.chains) : WellNested(pass.chains[i].events))
    => WellNested(events)

\* A pass returned in which a sub-token (Emphasis) was entered in the slice of
\* one member and exited in the slice of a later member that is not adjacent
\* to it in events.
C11_Witness ==
    /\ Returned1
    /\ \E i \in 1..Len(pass.chains) :
          LET c == pass.chains[i]
          IN  /\ Len(c.slices) >= 2
              /\ c.slices[2][1] > c.slices[1][1] + 2
              /\ c.events[1].token_type = "Emphasis"
              /\ c.slices[Len(c.slices)][2] > 0
    /\ WellNested(events)

----------------------------------------------------------------------------
(* parser.rs: parse, with as_codes and the tokenizer's consume.            *)

\* The code points of the texts handed to parse.
Chars == {"\r", "\n", "\t", "a"}

Texts == UNION { [1..n -> Chars] : n \in 0..MaxText }

\* `Code::Char(c)`, in the alphabet of the state functions.
Char(c) ==
    CASE c = "\r" -> "CR"
      [] c = "\n" -> "LF"
      [] c = "\t" -> "Tab"
      [] OTHER -> "Other"

\* Mutant: a '\r' is never paired with the '\n' after it.
at_crlf_never(value, i) == FALSE

\* "A \r followed by \n".
at_crlf(value, i) == value[i] = "\r" /\ i < Len(value) /\ value[i + 1] = "\n"

\* The VirtualSpace codes after a tab at `column`: to the next tab stop.
virtual_spaces(column) == [k \in 1..(3 - ((column - 1) % 4)) |-> "VirtualSpace"]

RECURSIVE as_codes_from(_, _, _)
as_codes_from(value, i, column) ==
    IF i > Len(value) THEN <<>>
    ELSE IF at_crlf(value, i)
    THEN <<"CarriageReturnLineFeed">> \o as_codes_from(value, i + 2, 1)
    ELSE IF value[i] = "\t"
    THEN LET vs == virtual_spaces(column)
         IN  <<Char(value[i])>> \o vs \o as_codes_from(value, i + 1, column + 1 + Len(vs))
    ELSE IF value[i] \in {"\r", "\n"}
    THEN <<Char(value[i])>> \o as_codes_from(value, i + 1, 1)
    ELSE <<Char(value[i])>> \o as_codes_from(value, i + 1, column + 1)

\* `as_codes(value)`.
as_codes(value) == as_codes_from(value, 1, 1)

\* `Point { line, column, offset }` and the index into the codes.
Point(line, column, offset, index) ==
    [line |-> line, column |-> column, offset |-> offset, index |-> index]

\* The point after `tokenizer.consume(code)`.
consume_point(pt, code) ==
    IF code = "VirtualSpace"
    THEN Point(pt.line, pt.column + 1, pt.offset, pt.index + 1)
    ELSE IF code = "CarriageReturnLineFeed"
    THEN Point(pt.line + 1, 1, pt.offset + 2, pt.index + 1)
    ELSE IF IsEol(code)
    THEN Point(pt.line + 1, 1, pt.offset + 1, pt.index + 1)
    ELSE Point(pt.line, pt.column + 1, pt.offset + 1, pt.index + 1)

\* `parse(value)`: the codes, and flow started at line 1, column 1, offset 0.
parse ==
    /\ state = "parse"
    /\ codes' = as_codes(entry.value)
    /\ point' = Point(1, 1, 0, 0)
    /\ state' = "flow"
    /\ UNCHANGED <<events, stack, info, eolinfo, attempt, entry, pass>>

\* The tokenizer consumes the next code; past the end it reads None and ends.
consume ==
    /\ state = "flow"
    /\ IF point.index < Len(codes)
       THEN /\ point' = consume_point(point, codes[point.index + 1])
            /\ state' = state
       ELSE /\ state' = "done"
            /\ point' = point
    /\ UNCHANGED <<events, codes, stack, info, eolinfo, attempt, entry, pass>>

InitParse ==
    /\ \E value \in Texts : entry = [construct |-> "parse", value |-> value]
    /\ state = "parse"
    /\ events = <<>>
    /\ codes = <<>>
    /\ point = Point(1, 1, 0, 0)
    /\ stack = <<>>
    /\ info = NoInfo
    /\ eolinfo = NoEolInfo
    /\ attempt = None
    /\ pass = NoPass

NextParse ==
    \/ parse
    \/ consume

SpecParse == InitParse /\ [][NextParse]_vars

----------------------------------------------------------------------------
(* Claims about as_codes.                                                  *)

\* The text a code stands for.
RECURSIVE Serialize(_)
Serialize(cs) ==
    IF cs = <<>> THEN <<>>
    ELSE (CASE cs[1] = "CarriageReturnLineFeed" -> <<"\r", "\n">>
            [] cs[1] = "VirtualSpace" -> <<>>
            [] cs[1] = "CR" -> <<"\r">>
            [] cs[1] = "LF" -> <<"\n">>
            [] cs[1] = "Tab" -> <<"\t">>
            [] OTHER -> <<"a">>)
         \o Serialize(Tail(cs))

CountCodes(cs, n, code) == Cardinality({i \in 1..n : cs[i] = code})

\* C12: every '\r' immediately followed by '\n' is one CarriageReturnLineFeed
\* code, every lone '\r' or '\n' is one Char code; the codes spell the text
\* again; and consuming the codes advances the line by one per line ending.
C12_LineEndingsNormalized ==
    (entry.construct = "parse" /\ state \in {"flow", "done"}) =>
        LET value == entry.value
            paired == {i \in 1..Len(value) :
                          value[i] = "\r" /\ i < Len(value) /\ value[i + 1] = "\n"}
            lone_cr == {i \in 1..Len(value) : value[i] = "\r" /\ i \notin paired}
            lone_lf == {i \in 1..Len(value) : value[i] = "\n" /\ (i - 1) \notin paired}
        IN  /\ CountCodes(codes, Len(codes), "CarriageReturnLineFeed") = Cardinality(paired)
            /\ CountCodes(codes, Len(codes), "CR") = Cardinality(lone_cr)
            /\ CountCodes(codes, Len(codes), "LF") = Cardinality(lone_lf)
            /\ Serialize(codes) = value
            /\ point.line = 1 + CountCodes(codes, point.index, "CarriageReturnLineFeed")
                              + CountCodes(codes, point.index, "CR")
                              + CountCodes(codes, point.index, "LF")
            /\ state = "done" =>
                  /\ point.line = 1 + Cardinality(paired) + Cardinality(lone_cr)
                                    + Cardinality(lone_lf)
                  /\ point.offset = Len(value)

\* A text with a lone '\r' and a "\r\n" was parsed and consumed: two line endings.
C12_Witness ==
    /\ entry.construct = "parse"
    /\ state = "done"
    /\ CountCodes(codes, Len(codes), "CarriageReturnLineFeed") = 1
    /\ CountCodes(codes, Len(codes), "CR") = 1
    /\ Len(entry.value) = 3
    /\ point.line = 3

----------------------------------------------------------------------------
(* Claims about the feeding of a chain.                                    *)

\* The feeds of the last pass, as pairs <<chain, feed>>.
FeedsOfPass ==
    {<<i, k>> : i \in 1..Len(pass.chains), k \in 1..MaxFlowCodes + 1} \cap
    UNION {{<<i, k>> : k \in 1..Len(pass.chains[i].feeds)} : i \in 1..Len(pass.chains)}

\* The indices of the linked events of a vector.
LinkedIn(evs) == {i \in 0..(Len(evs) - 1) : At(evs, i).link # None}

\* C13: in every pass that returns, the chains tokenized are exactly the heads
\* of the vector, one sub-tokenizer each, started at the head; the members of
\* a chain are fed in the order of link.next, each as [enter.point.index,
\* exit.point.index), no member twice; eof is true on the feed of the last
\* member (link.next = None) and false on every earlier feed.
C13_FeedsInChainOrder ==
    Returned1 =>
        /\ {pass.chains[i].index : i \in 1..Len(pass.chains)}
              = {i \in LinkedIn(pass.before) : At(pass.before, i).link[1].previous = None}
        /\ \A i, j \in 1..Len(pass.chains) :
              i < j => pass.chains[i].index < pass.chains[j].index
        /\ \A i \in 1..Len(pass.chains) :
              LET c == pass.chains[i]
                  n == Len(c.feeds)
              IN  /\ n >= 1
                  /\ c.feeds[1].index = c.index
                  /\ \A k \in 1..n :
                        LET f == c.feeds[k]
                            l == At(pass.before, f.index).link[1]
                        IN  /\ f.start_index = At(pass.before, f.index).index
                            /\ f.end_index = At(pass.before, f.index + 1).index
                            /\ f.eof = (k = n)
                            /\ f.eof = (l.next = None)
                            /\ k < n => l.next = Some(c.feeds[k + 1].index)
        /\ \A x, y \in FeedsOfPass :
              pass.chains[x[1]].feeds[x[2]].index = pass.chains[y[1]].feeds[y[2]].index
                  => x = y

\* A first pass fed a chain of two members that are not adjacent in events,
\* and a second chain after it.
C13_Witness ==
    /\ Returned1
    /\ pass.number = 1
    /\ Len(pass.chains) = 2
    /\ Len(pass.chains[1].feeds) = 2
    /\ pass.chains[1].feeds[2].index > pass.chains[1].feeds[1].index + 2
    /\ pass.chains[1].feeds[2].eof
    /\ ~pass.chains[1].feeds[1].eof

\* C14: while feeding a chain, define_skip(enter.point) is called for exactly
\* the members after the head (those whose link.previous is set), never for
\* the head, and before the member's codes are pushed.
C14_SkipAfterHead ==
    Returned1 =>
        \A i \in 1..Len(pass.chains) :
            \A k \in 1..Len(pass.chains[i].feeds) :
                LET f == pass.chains[i].feeds[k]
                IN  /\ f.define_skip = (k > 1)
                    /\ f.define_skip = (At(pass.before, f.index).link[1].previous # None)
                    /\ f.calls = IF k > 1 THEN <<"define_skip", "push">> ELSE <<"push">>

\* A chain of two members with a line ending between them was fed: no skip
\* for the head, a skip and then a push for the second member.
C14_Witness ==
    /\ Returned1
    /\ \E i \in 1..Len(pass.chains) :
          LET c == pass.chains[i]
          IN  /\ Len(c.feeds) = 2
              /\ c.feeds[2].start_index > c.feeds[1].end_index
              /\ c.feeds[1].calls = <<"push">>
              /\ c.feeds[2].calls = <<"define_skip", "push">>

\* C15: the root state of a sub-tokenizer is chosen by the content_type of
\* the head: string for String, text for Text; and only a linked Enter whose
\* link.previous is None starts a sub-tokenizer, never an event without a link
\* or a linked event with a previous.
C15_RootByContentType ==
    Returned1 =>
        \A i \in 1..Len(pass.chains) :
            LET c == pass.chains[i]
                head == At(pass.before, c.index)
            IN  /\ head.link # None
                /\ head.event_type = "Enter"
                /\ head.link[1].previous = None
                /\ (head.link[1].content_type = "String") <=> (c.root = "string")
                /\ (head.link[1].content_type = "Text") <=> (c.root = "text")

\* A pass tokenized a String chain of two members and a Text chain: two
\* sub-tokenizers, one per root, none for the second member.
C15_Witness ==
    /\ Returned1
    /\ Len(pass.chains) = 2
    /\ {pass.chains[1].root, pass.chains[2].root} = {"string", "text"}
    /\ \E i \in 1..2 : Len(pass.chains[i].feeds) = 2

----------------------------------------------------------------------------
(* More claims about space_or_tab and space_or_tab_eol.                    *)

\* The construct run is one of the whitespace helpers.
IsWhitespaceHelper == entry.construct \in {"space_or_tab", "space_or_tab_eol"}

\* The indices of the events the construct has appended so far.
Appended == Len(entry.events)..(Len(events) - 1)

\* C16: every linked event that space_or_tab or space_or_tab_eol appended is an
\* Enter, and the event appended next after it is its Exit (same token type):
\* nothing is appended in between, and no appended Exit carries a link.
C16_LinkedEventsAreVoid ==
    IsWhitespaceHelper =>
        \A i \in Appended :
            LET e == At(events, i)
            IN  /\ e.event_type = "Exit" => e.link = None
                /\ e.link # None =>
                      /\ e.event_type = "Enter"
                      /\ IF i + 1 < Len(events)
                         THEN /\ At(events, i + 1).event_type = "Exit"
                              /\ At(events, i + 1).token_type = e.token_type
                         ELSE state \in {"inside", "abort"}

\* space_or_tab_eol appended three linked void pairs and returned Ok.
C16_Witness ==
    /\ entry.construct = "space_or_tab_eol"
    /\ state = "Ok"
    /\ Cardinality({i \in Appended : At(events, i).link # None}) = 3
    /\ Cardinality({i \in Appended : At(events, i).event_type = "Exit"}) = 3

\* C17 (as claimed): whenever space_or_tab or space_or_tab_eol, with
\* content_type set, calls link, the assertions of link_to hold, whatever
\* connect is and whatever events precede, so the run never aborts.
C17_LinkNeverAborts ==
    (IsWhitespaceHelper /\ entry.options.content_type # None) => state # "abort"

\* C18 (as claimed): space_or_tab_eol with content_type set and connect = true,
\* started right after a void linked pair of that content type, connects the
\* first token it appends, SpaceOrTab or LineEnding, to the previous linked
\* event: its link.previous leads to that event, whose link.next leads back.
C18_EolFirstTokenConnected ==
    ( /\ entry.construct = "space_or_tab_eol"
      /\ entry.options.content_type # None
      /\ entry.options.connect
      /\ Len(entry.events) >= 2
      /\ VoidLinkedEnter(entry.events, Len(entry.events) - 2)
      /\ At(entry.events, Len(entry.events) - 2).link[1].content_type
            = entry.options.content_type[1]
      /\ state # "abort"
      /\ Len(events) > Len(entry.events) ) =>
        LET n == Len(entry.events)
            first == At(events, n)
        IN  /\ first.link # None
            /\ \E i \in 0..(n - 1) :
                  /\ first.link[1].previous = Some(i)
                  /\ At(events, i).link # None
                  /\ At(events, i).link[1].next = Some(n)

----------------------------------------------------------------------------
(* Claims about the patches of a pass.                                     *)

\* The map.add calls of the last pass, as pairs <<chain, slice>>.
AddsOfPass ==
    UNION {{<<i, k>> : k \in 1..Len(pass.chains[i].slices)} : i \in 1..Len(pass.chains)}

AddTarget(x) == pass.chains[x[1]].slices[x[2]][1]

\* C19: in every pass whose scan reaches map.consume, no event index is the
\* target of two map.add calls, of one chain or of two, and the windows
\* [m, m + 2) that the patches remove are pairwise disjoint.
C19_PatchesDisjoint ==
    (pass.number >= 1 /\ pass.scanned) =>
        /\ \A x, y \in AddsOfPass : AddTarget(x) = AddTarget(y) => x = y
        /\ \A x, y \in AddsOfPass :
              x # y => (AddTarget(x) + 2 <= AddTarget(y) \/ AddTarget(y) + 2 <= AddTarget(x))
        /\ \A q \in pass.map : q.remove = 2 /\ q.index + 2 <= Len(pass.before)
        /\ {q.index : q \in pass.map} = {AddTarget(x) : x \in AddsOfPass}

\* A pass scheduled three patches, for the members of two chains.
C19_Witness ==
    /\ pass.number >= 1
    /\ pass.scanned
    /\ Len(pass.chains) = 2
    /\ Cardinality(pass.map) = 3
    /\ Cardinality(AddsOfPass) = 3

\* C20 (as claimed): when subtokenize returns done = true no event of the
\* resulting vector carries a link; and it returns done = false exactly when
\* some subevent produced in the pass carries a link.
C20_DoneMeansNoLinks ==
    Returned1 =>
        /\ pass.done = (state = "done")
        /\ state = "done" => LinkedIn(events) = {}
        /\ ~pass.done <=>
              \E i \in 1..Len(pass.chains) :
                  \E p \in 1..Len(pass.chains[i].events) :
                      pass.chains[i].events[p].link # None

----------------------------------------------------------------------------
(* Claims about what splicing keeps.                                       *)

\* The slices of chain c, from slice k on, one after the other.
RECURSIVE SlicesFrom(_, _)
SlicesFrom(c, k) ==
    IF k > Len(c.slices) THEN <<>> ELSE SliceEvents(c, k) \o SlicesFrom(c, k + 1)

\* The indices of the outer events that no patch of the last pass removes,
\* from index i on, in rising order.
RECURSIVE KeptFrom(_)
KeptFrom(i) ==
    IF i >= Len(pass.before) THEN <<>>
    ELSE IF \E q \in pass.map : q.index <= i /\ i < q.index + q.remove
         THEN KeptFrom(i + 1)
         ELSE <<i>> \o KeptFrom(i + 1)

KeptOuter == KeptFrom(0)

\* Where a kept outer event sits once the edit map is applied.
KeptIndex(i) == i + SumGrowth({q \in pass.map : q.index < i})

\* An event without its link (links are rewritten by the shift).
Unlinked(e) == [e EXCEPT !.link = None]

\* C21: splicing loses and duplicates nothing.  The slices of a chain are
\* contiguous runs of the subevent vector, the first from subindex 0, and one
\* after the other they are the subevents in their order; each is the insert
\* of the patch at its member.  In the resulting vector every subevent sits
\* once, in order, where its member was, and every outer event outside the
\* removed pairs is kept, in its original relative order (each kept event
\* before the kept event that followed it, each subevent before the next).
C21_SplicingKeepsAll ==
    (pass.number >= 1 /\ pass.scanned) =>
        /\ \A i \in 1..Len(pass.chains) :
              LET c == pass.chains[i]
              IN  /\ c.slices[1][2] = 0
                  /\ \A k \in 1..(Len(c.slices) - 1) : c.slices[k][2] <= c.slices[k + 1][2]
                  /\ c.slices[Len(c.slices)][2] <= Len(c.events)
                  /\ SlicesFrom(c, 1) = c.fixed
                  /\ Len(c.fixed) = Len(c.events)
                  /\ \A p \in 1..Len(c.events) : Unlinked(c.fixed[p]) = Unlinked(c.events[p])
                  /\ \A k \in 1..Len(c.slices) :
                        \E q \in pass.map :
                            /\ q.index = c.slices[k][1]
                            /\ q.add = SliceEvents(c, k)
        /\ Returned1 =>
              LET kept == KeptOuter
              IN  /\ Len(events) = Len(pass.before) + SumGrowth(pass.map)
                  /\ \A k \in 1..Len(kept) :
                        /\ InRange(events, KeptIndex(kept[k]))
                        /\ At(events, KeptIndex(kept[k])) = At(pass.before, kept[k])
                  /\ \A k \in 1..(Len(kept) - 1) :
                        KeptIndex(kept[k]) < KeptIndex(kept[k + 1])
                  /\ \A i \in 1..Len(pass.chains) :
                        LET c == pass.chains[i]
                        IN  /\ \A p \in 0..(Len(c.fixed) - 1) :
                                  /\ InRange(events, FinalIndex(c, p))
                                  /\ At(events, FinalIndex(c, p)) = At(c.fixed, p)
                            /\ \A p \in 0..(Len(c.fixed) - 2) :
                                  FinalIndex(c, p) < FinalIndex(c, p + 1)

\* A pass returned that spliced a chain of two members, not adjacent in
\* events, as two slices, the second longer than one pair, after an earlier
\* chain.
C21_Witness ==
    /\ Returned1
    /\ Len(pass.chains) = 2
    /\ LET c == pass.chains[2]
       IN  /\ Len(c.slices) = 2
           /\ c.slices[2][1] > c.slices[1][1] + 2
           /\ c.slices[2][2] >= 2
           /\ Len(c.fixed) - c.slices[2][2] >= 3
    /\ Len(events) > Len(pass.before)

----------------------------------------------------------------------------
(* Claims about the events the whitespace helpers leave.                   *)

\* The token types of the Enter events the construct appended, in order.
RECURSIVE EnteredFrom(_)
EnteredFrom(i) ==
    IF i >= Len(events) THEN <<>>
    ELSE (IF At(events, i).event_type = "Enter" THEN <<At(events, i).token_type>> ELSE <<>>)
         \o EnteredFrom(i + 1)

\* SpaceOrTab?, then optionally LineEnding and SpaceOrTab?.
EolTokenOrders ==
    { <<>>, <<"SpaceOrTab">>, <<"LineEnding">>, <<"SpaceOrTab", "LineEnding">>,
      <<"LineEnding", "SpaceOrTab">>, <<"SpaceOrTab", "LineEnding", "SpaceOrTab">> }

\* C22: when space_or_tab or space_or_tab_eol returns Ok or Nok, every Enter
\* it appended is followed by its Exit and the stack is as at entry; space_or_tab
\* that consumed nothing appended nothing (and else one pair);
\* space_or_tab_eol appended at most SpaceOrTab, LineEnding, SpaceOrTab, in
\* that order.
C22_TerminalLeavesPairs ==
    (IsWhitespaceHelper /\ state \in {"Ok", "Nok"}) =>
        /\ stack = entry.stack
        /\ Len(events) >= Len(entry.events)
        /\ (Len(events) - Len(entry.events)) % 2 = 0
        /\ \A i \in Appended :
              (i - Len(entry.events)) % 2 = 0 =>
                  /\ At(events, i).event_type = "Enter"
                  /\ At(events, i + 1).event_type = "Exit"
                  /\ At(events, i + 1).token_type = At(events, i).token_type
        /\ entry.construct = "space_or_tab" =>
              /\ point = Origin => Len(events) = Len(entry.events)
              /\ point > Origin =>
                    EnteredFrom(Len(entry.events)) = <<entry.options.kind>>
        /\ entry.construct = "space_or_tab_eol" =>
              EnteredFrom(Len(entry.events)) \in EolTokenOrders

\* space_or_tab_eol returned Nok after whitespace, a line ending and
\* whitespace before a blank line: three pairs stay appended, the stack
\* (one open Paragraph) is as at entry.
C22_Witness ==
    /\ entry.construct = "space_or_tab_eol"
    /\ state = "Nok"
    /\ EnteredFrom(Len(entry.events)) = <<"SpaceOrTab", "LineEnding", "SpaceOrTab">>
    /\ stack = entry.stack
    /\ stack # <<>>

=============================================================================
